---- MODULE Spec2Model ----
(***************************************************************************)
(* gita: a registry of local git repositories kept in one persisted path   *)
(* file, with the sub-commands add, rm, ls and super of gita/__main__.py.  *)
(* (The sub-commands read from command files reach f_git_cmd as super does *)
(* and are not modelled apart.)                                            *)
(* One command-line invocation runs at a time; the persisted file outlives *)
(* the invocations.  gita/utils.py is not part of the sources at hand: its *)
(* functions are modelled from the specification and from tests/.          *)
(***************************************************************************)
EXTENDS Naturals, Integers, Sequences, FiniteSets

\* ------------------------------------------------------------------ bounds

\* longest argument list given to `gita super`
MaxArgs == 2

\* most paths given to one `gita add`
MaxAdd == 2

\* ------------------------------------------------------------ input values

\* Normalised absolute paths, as their sequence of segments.
Paths ==
  { <<"a", "x", "repo1">>, <<"b", "x", "repo1">>, <<"x", "repo1">>, <<"b", "repo2">> }

\* The directories that are git repositories (utils.is_git).
GitDirs == Paths

\* The working directory of the invocation (os.path.abspath resolves against it).
Cwd == <<"a">>

\* Paths as typed on the command line of `gita add`.
RawPaths ==
  { [abs |-> TRUE, segs |-> p, trail |-> FALSE] : p \in Paths }
    \cup { [abs |-> TRUE, segs |-> <<"a", "x", "repo1">>, trail |-> TRUE],
           [abs |-> FALSE, segs |-> <<"x", "repo1">>, trail |-> FALSE],
           [abs |-> TRUE, segs |-> <<"a", "tmp">>, trail |-> FALSE] }

\* Words of a command line: a word is split at "/" (so "x/repo1" is <<"x","repo1">>).
Words == { <<"repo1">>, <<"repo2">>, <<"x", "repo1">>, <<"status">> }

\* No optional positional argument given (argparse leaves None).
NoName == <<>>

\* Characters of the path file in ascending character order ('/' is below ':',
\* the digits and the letters; no segment is a prefix of another).
TokOrder == <<"/", "a", "b", "repo1", "repo2", "tmp", "x">>

SeqsUpTo(S, n) == UNION { [1..k -> S] : k \in 0..n }

Range(s) == { s[i] : i \in 1..Len(s) }

NoDup(s) == \A i, j \in 1..Len(s) : s[i] = s[j] => i = j

\* ------------------------------------------------- the persisted path file

TokRank(t) == CHOOSE i \in 1..Len(TokOrder) : TokOrder[i] = t

\* str order of Python on two strings given as token sequences
RECURSIVE StrLess(_, _)
StrLess(s, t) ==
  IF s = <<>> THEN t # <<>>
  ELSE IF t = <<>> THEN FALSE
  ELSE IF Head(s) = Head(t) THEN StrLess(Tail(s), Tail(t))
  ELSE TokRank(Head(s)) < TokRank(Head(t))

\* the string of a path: "/" before every segment
RECURSIVE PathStr(_)
PathStr(p) == IF p = <<>> THEN <<>> ELSE <<"/", Head(p)>> \o PathStr(Tail(p))

\* os.pathsep.join(paths)
RECURSIVE Join(_)
Join(ps) ==
  IF ps = <<>> THEN <<>>
  ELSE IF Len(ps) = 1 THEN PathStr(ps[1])
  ELSE PathStr(Head(ps)) \o <<":">> \o Join(Tail(ps))

\* data.split(os.pathsep), from position i on, cur being the piece in progress
RECURSIVE SplitFrom(_, _, _)
SplitFrom(data, i, cur) ==
  IF i > Len(data) THEN <<cur>>
  ELSE IF data[i] = ":" THEN <<cur>> \o SplitFrom(data, i + 1, <<>>)
  ELSE SplitFrom(data, i + 1, Append(cur, data[i]))

\* the segments of one path string
ParsePath(toks) == SelectSeq(toks, LAMBDA t : t # "/")

\* the paths of the path file; a missing or empty file holds none
ReadPaths(f) ==
  IF ~f.exists \/ f.data = <<>> THEN <<>>
  ELSE LET pieces == SplitFrom(f.data, 1, <<>>)
       IN [k \in 1..Len(pieces) |-> ParsePath(pieces[k])]

\* a variant of SortPaths with the comparison the wrong way round
RECURSIVE SortPathsDescending(_)
SortPathsDescending(S) ==
  IF S = {} THEN <<>>
  ELSE LET m == CHOOSE p \in S : \A q \in S \ {p} : StrLess(PathStr(q), PathStr(p))
       IN <<m>> \o SortPathsDescending(S \ {m})

\* sorted(paths) of a set of paths, ascending in str order
RECURSIVE SortPaths(_)
SortPaths(S) ==
  IF S = {} THEN <<>>
  ELSE LET m == CHOOSE p \in S : \A q \in S \ {p} : StrLess(PathStr(p), PathStr(q))
       IN <<m>> \o SortPaths(S \ {m})

\* ------------------------------------------------------------ the registry

\* A registry is a dict in insertion order: a sequence of [name, path].
Keys(reg) == { reg[k].name : k \in 1..Len(reg) }

Values(reg) == [k \in 1..Len(reg) |-> reg[k].path]

Lookup(reg, n) == (CHOOSE k \in 1..Len(reg) : reg[k].name = n)

\* reg[n] = p
Put(reg, n, p) ==
  IF n \in Keys(reg)
    THEN [k \in 1..Len(reg) |-> IF reg[k].name = n THEN [name |-> n, path |-> p] ELSE reg[k]]
    ELSE Append(reg, [name |-> n, path |-> p])

\* del reg[n]
Del(reg, n) == SelectSeq(reg, LAMBDA e : e.name # n)

Suffix(p, j) == SubSeq(p, Len(p) - j + 1, Len(p))

\* a variant of NameFor that qualifies a clashing name by the parent directory
\* only, free or not
NameForFirstClash(reg, p) ==
  IF Suffix(p, 1) \notin Keys(reg) \/ Len(p) < 2 THEN Suffix(p, 1) ELSE Suffix(p, 2)

\* The name a path gets in a registry: its final segment, or on a clash the
\* shortest longer suffix of the path that is free, at last the absolute path.
NameFor(reg, p) ==
  LET free == { j \in 1..Len(p) : Suffix(p, j) \notin Keys(reg) }
  IN IF free = {} THEN <<"">> \o p
     ELSE Suffix(p, CHOOSE j \in free : \A i \in free : j <= i)

RECURSIVE LoadFrom(_, _, _)
LoadFrom(ps, k, reg) ==
  IF k > Len(ps) THEN reg
  ELSE LoadFrom(ps, k + 1, Put(reg, NameFor(reg, ps[k]), ps[k]))

\* utils.get_repos(): the registry of the path file
get_repos(f) == LoadFrom(ReadPaths(f), 1, <<>>)

\* os.path.abspath of a path of the command line
abspath(raw) == (IF raw.abs THEN <<>> ELSE Cwd) \o raw.segs

\* utils.is_git
is_git(p) == p \in GitDirs

\* utils.add_repos: the valid paths of the command line that are not registered
add_new(f, ps) ==
  { abspath(ps[k]) : k \in { j \in 1..Len(ps) : is_git(abspath(ps[j])) } }
    \ Range(Values(get_repos(f)))

\* a variant of add_content that appends the given paths without comparing
\* them with the registered ones
add_content_keeping_duplicates(f, ps) ==
  Join(Values(get_repos(f))
         \o SelectSeq([k \in 1..Len(ps) |-> abspath(ps[k])], LAMBDA p : is_git(p)))

\* utils.add_repos: what it writes to the path file
add_content(f, ps) == Join(SortPaths(Range(Values(get_repos(f))) \cup add_new(f, ps)))

\* the path file after a whole add
AddResult(f, ps) ==
  IF add_new(f, ps) = {} THEN f ELSE [exists |-> TRUE, data |-> add_content(f, ps)]

\* a variant of argparse_choices for an argument declared without choices
argparse_choices_unchecked(word, reg) == TRUE

\* argparse: a positional argument declared with choices=utils.get_repos()
argparse_choices(word, reg) == word \in Keys(reg)

\* a variant of f_rm_content that leaves out del repos[args.repo]
f_rm_content_without_del(reg, n) == Join(Values(reg))

\* f_rm: what it writes to the path file
f_rm_content(reg, n) == Join(Values(Del(reg, n)))

\* f_super: the loop over args.man from its j-th word on; i is the loop
\* variable of enumerate (0-based), -1 while it is unbound
RECURSIVE f_super_loop(_, _, _, _, _)
f_super_loop(words, reg, j, acc, i) ==
  IF j > Len(words) THEN [names |-> acc, i |-> i]
  ELSE IF words[j] \in Keys(reg)
         THEN f_super_loop(words, reg, j + 1, Append(acc, words[j]), j - 1)
         ELSE [names |-> acc, i |-> j - 1]

\* f_git_cmd: {k: repos[k] for k in args.repo}
RECURSIVE DictComp(_, _, _, _)
DictComp(reg, ks, j, acc) ==
  IF j > Len(ks) THEN acc
  ELSE DictComp(reg, ks, j + 1, Put(acc, ks[j], reg[Lookup(reg, ks[j])].path))

\* a variant of f_git_cmd_select that ignores args.repo
f_git_cmd_select_all(reg, ks) == reg

\* f_git_cmd: the repositories the command is delegated to
f_git_cmd_select(reg, ks) == IF ks # <<>> THEN DictComp(reg, ks, 1, <<>>) ELSE reg

\* utils.describe: the rendered line of one status snapshot
render(snap) == [name |-> snap.name, text |-> <<IF snap.dirty THEN "red" ELSE "green">>]

\* -------------------------------------------------------------- the state

VARIABLES
  file,     \* the persisted path file: [exists, data]
  pc,       \* where the invocation stands; "idle" between invocations
  op,       \* the sub-command of the current (or last) invocation
  status,   \* how it ended: "ok", "error", "killed"; "running" meanwhile
  old,      \* the path file when the invocation started
  pending,  \* the content a rewrite of the path file is about to write
  repos,    \* the registry in memory (the cached utils.get_repos())
  addargs,  \* args.repo of add
  name,     \* args.repo of rm and ls
  man,      \* args.man of super
  names,    \* args.repo as f_super sets it
  cmd,      \* args.cmd as f_super sets it
  sel,      \* the repositories f_git_cmd runs the command in
  calls,    \* the finished utils.exec_git calls: [path, cmd, exit]
  running,  \* an exec_git call is under way
  slots,    \* describe: the snapshot of each repository, by position
  order,    \* describe: the positions in the order their queries completed
  out       \* the lines printed

vars ==
  <<file, pc, op, status, old, pending, repos, addargs, name, man, names, cmd,
    sel, calls, running, slots, order, out>>

NoFile == [exists |-> FALSE, data |-> <<>>]

NoSnap == [name |-> NoName, dirty |-> FALSE]

Init ==
  /\ file = NoFile
  /\ pc = "idle"
  /\ op = "none"
  /\ status = "ok"
  /\ old = NoFile
  /\ pending = <<>>
  /\ repos = <<>>
  /\ addargs = <<>>
  /\ name = NoName
  /\ man = <<>>
  /\ names = <<>>
  /\ cmd = <<>>
  /\ sel = <<>>
  /\ calls = <<>>
  /\ running = FALSE
  /\ slots = <<>>
  /\ order = <<>>
  /\ out = <<>>

\* main: a new process; the parser is built from utils.get_repos()
Start(o) ==
  /\ pc = "idle"
  /\ op' = o
  /\ old' = file

NoDispatch ==
  /\ names' = <<>>
  /\ cmd' = <<>>
  /\ sel' = <<>>
  /\ calls' = <<>>
  /\ running' = FALSE

NoSummary ==
  /\ slots' = <<>>
  /\ order' = <<>>

\* ---------------------------------------------------------------- gita add

\* f_add -> utils.add_repos, up to open(fname, 'w')
f_add(ps) ==
  /\ Start("add")
  /\ repos' = get_repos(file)
  /\ addargs' = ps
  /\ name' = NoName
  /\ man' = <<>>
  /\ NoDispatch
  /\ NoSummary
  /\ out' = <<>>
  /\ IF add_new(file, ps) = {}
       THEN /\ pc' = "done"
            /\ status' = "ok"
            /\ pending' = file.data
            /\ file' = file
       ELSE /\ pc' = "add_write"
            /\ status' = "running"
            /\ pending' = add_content(file, ps)
            /\ file' = [exists |-> TRUE, data |-> <<>>]

\* utils.add_repos: f.write(...) and the close of the file
add_repos_write ==
  /\ pc = "add_write"
  /\ file' = [exists |-> TRUE, data |-> pending]
  /\ pc' = "done"
  /\ status' = "ok"
  /\ UNCHANGED <<op, old, pending, repos, addargs, name, man, names, cmd, sel,
                 calls, running, slots, order, out>>

\* ----------------------------------------------------------------- gita rm

\* main's parser and f_rm, up to open(path_file, 'w')
f_rm(n) ==
  /\ Start("rm")
  /\ name' = n
  /\ addargs' = <<>>
  /\ man' = <<>>
  /\ NoDispatch
  /\ NoSummary
  /\ out' = <<>>
  /\ LET reg == get_repos(file)
     IN IF ~argparse_choices(n, reg)
          THEN \* argparse: invalid choice, exit status 2
               /\ repos' = reg
               /\ pc' = "done"
               /\ status' = "error"
               /\ pending' = file.data
               /\ file' = file
          ELSE IF ~file.exists
          THEN \* os.path.isfile(path_file) is false: nothing is done
               /\ repos' = reg
               /\ pc' = "done"
               /\ status' = "ok"
               /\ pending' = file.data
               /\ file' = file
          ELSE IF n \notin Keys(reg)
          THEN \* del repos[args.repo] raises KeyError
               /\ repos' = reg
               /\ pc' = "done"
               /\ status' = "error"
               /\ pending' = file.data
               /\ file' = file
          ELSE /\ repos' = Del(reg, n)
               /\ pc' = "rm_write"
               /\ status' = "running"
               /\ pending' = f_rm_content(reg, n)
               /\ file' = [exists |-> TRUE, data |-> <<>>]

\* f_rm: f.write(...) and the close of the file
f_rm_write ==
  /\ pc = "rm_write"
  /\ file' = [exists |-> TRUE, data |-> pending]
  /\ pc' = "done"
  /\ status' = "ok"
  /\ UNCHANGED <<op, old, pending, repos, addargs, name, man, names, cmd, sel,
                 calls, running, slots, order, out>>

\* The process is killed, or f.write raises, between open(.., 'w') and the write.
Interrupt ==
  /\ pc \in {"add_write", "rm_write"}
  /\ pc' = "done"
  /\ status' = "killed"
  /\ UNCHANGED <<file, op, old, pending, repos, addargs, name, man, names, cmd,
                 sel, calls, running, slots, order, out>>

\* ----------------------------------------------------------------- gita ls

\* main's parser and f_ls, up to the dispatch of utils.describe's queries
f_ls(n) ==
  /\ Start("ls")
  /\ name' = n
  /\ addargs' = <<>>
  /\ man' = <<>>
  /\ NoDispatch
  /\ order' = <<>>
  /\ pending' = file.data
  /\ file' = file
  /\ LET reg == get_repos(file)
     IN /\ repos' = reg
        /\ IF n # NoName /\ ~argparse_choices(n, reg)
             THEN /\ pc' = "done"
                  /\ status' = "error"
                  /\ slots' = <<>>
                  /\ out' = <<>>
             ELSE IF n # NoName /\ n \notin Keys(reg)
             THEN \* repos[args.repo] raises KeyError
                  /\ pc' = "done"
                  /\ status' = "error"
                  /\ slots' = <<>>
                  /\ out' = <<>>
             ELSE IF n # NoName
             THEN \* print(repos[args.repo])
                  /\ pc' = "done"
                  /\ status' = "ok"
                  /\ slots' = <<>>
                  /\ out' = <<[name |-> n, text |-> PathStr(reg[Lookup(reg, n)].path)]>>
             ELSE /\ pc' = IF reg = <<>> THEN "done" ELSE "ls_wait"
                  /\ status' = IF reg = <<>> THEN "ok" ELSE "running"
                  /\ slots' = [k \in 1..Len(reg) |-> NoSnap]
                  /\ out' = <<>>

\* utils.describe: the queries of the k-th repository complete
describe_task(k, dirty) ==
  /\ pc = "ls_wait"
  /\ k \in 1..Len(slots)
  /\ slots[k] = NoSnap
  /\ slots' = [slots EXCEPT ![k] = [name |-> repos[k].name, dirty |-> dirty]]
  /\ order' = Append(order, k)
  /\ UNCHANGED <<file, pc, op, status, old, pending, repos, addargs, name, man,
                 names, cmd, sel, calls, running, out>>

\* a variant of f_ls_print that stops after the first line
f_ls_print_first_only ==
  /\ pc = "ls_wait"
  /\ \A k \in 1..Len(slots) : slots[k] # NoSnap
  /\ out' = Append(out, render(slots[Len(out) + 1]))
  /\ pc' = "done"
  /\ status' = "ok"
  /\ UNCHANGED <<file, op, old, pending, repos, addargs, name, man, names, cmd,
                 sel, calls, running, slots, order>>

\* f_ls: for line in utils.describe(repos): print(line, end='')
f_ls_print ==
  /\ pc = "ls_wait"
  /\ \A k \in 1..Len(slots) : slots[k] # NoSnap
  /\ out' = Append(out, render(slots[Len(out) + 1]))
  /\ pc' = IF Len(out') = Len(slots) THEN "done" ELSE "ls_wait"
  /\ status' = IF Len(out') = Len(slots) THEN "ok" ELSE "running"
  /\ UNCHANGED <<file, op, old, pending, repos, addargs, name, man, names, cmd,
                 sel, calls, running, slots, order>>

\* -------------------------------------------------------------- gita super

\* f_super and f_git_cmd, up to the loop over the selected repositories
f_super(m) ==
  /\ Start("super")
  /\ man' = m
  /\ addargs' = <<>>
  /\ name' = NoName
  /\ NoSummary
  /\ out' = <<>>
  /\ calls' = <<>>
  /\ running' = FALSE
  /\ pending' = file.data
  /\ file' = file
  /\ LET reg == get_repos(file)
         r == f_super_loop(m, reg, 1, <<>>, -1)
     IN /\ repos' = reg
        /\ IF r.i = -1
             THEN \* args.man[i:] with i unbound: UnboundLocalError
                  /\ names' = r.names
                  /\ cmd' = <<>>
                  /\ sel' = <<>>
                  /\ pc' = "done"
                  /\ status' = "error"
             ELSE /\ names' = r.names
                  /\ cmd' = SubSeq(m, r.i + 1, Len(m))
                  /\ sel' = f_git_cmd_select(reg, r.names)
                  /\ pc' = IF sel' = <<>> THEN "done" ELSE "cmd_loop"
                  /\ status' = IF sel' = <<>> THEN "ok" ELSE "running"

\* f_git_cmd: utils.exec_git(path, args.cmd) is called for the next path
f_git_cmd_call ==
  /\ pc = "cmd_loop"
  /\ ~running
  /\ running' = TRUE
  /\ UNCHANGED <<file, pc, op, status, old, pending, repos, addargs, name, man,
                 names, cmd, sel, calls, slots, order, out>>

\* a variant of f_git_cmd_next that leaves the loop at the first failure
f_git_cmd_next_fail_fast(code) ==
  /\ pc = "cmd_loop"
  /\ running
  /\ running' = FALSE
  /\ calls' = Append(calls, [path |-> sel[Len(calls) + 1].path, cmd |-> cmd, exit |-> code])
  /\ pc' = IF Len(calls') = Len(sel) \/ code # 0 THEN "done" ELSE "cmd_loop"
  /\ status' = IF Len(calls') = Len(sel) \/ code # 0 THEN "ok" ELSE "running"
  /\ UNCHANGED <<file, op, old, pending, repos, addargs, name, man, names, cmd,
                 sel, slots, order, out>>

\* f_git_cmd: the call returns, whatever the command's exit status, and the
\* loop goes on to the next path
f_git_cmd_next(code) ==
  /\ pc = "cmd_loop"
  /\ running
  /\ running' = FALSE
  /\ calls' = Append(calls, [path |-> sel[Len(calls) + 1].path, cmd |-> cmd, exit |-> code])
  /\ pc' = IF Len(calls') = Len(sel) THEN "done" ELSE "cmd_loop"
  /\ status' = IF Len(calls') = Len(sel) THEN "ok" ELSE "running"
  /\ UNCHANGED <<file, op, old, pending, repos, addargs, name, man, names, cmd,
                 sel, slots, order, out>>

\* ------------------------------------------------------------------- exit

\* main returns (or the exception ends the process); nothing but the path
\* file outlives the invocation
main_exit ==
  /\ pc = "done"
  /\ pc' = "idle"
  /\ op' = "none"
  /\ status' = "ok"
  /\ old' = NoFile
  /\ pending' = <<>>
  /\ repos' = <<>>
  /\ addargs' = <<>>
  /\ name' = NoName
  /\ man' = <<>>
  /\ NoDispatch
  /\ NoSummary
  /\ out' = <<>>
  /\ file' = file

\* ------------------------------------------------------- the specification

Next ==
  \/ \E ps \in SeqsUpTo(RawPaths, MaxAdd) \ {<<>>} : f_add(ps)
  \/ add_repos_write
  \/ \E n \in Words : f_rm(n)
  \/ f_rm_write
  \/ Interrupt
  \/ \E n \in Words \cup {NoName} : f_ls(n)
  \/ \E k \in 1..Cardinality(Paths), dirty \in BOOLEAN : describe_task(k, dirty)
  \/ f_ls_print
  \/ \E m \in SeqsUpTo(Words, MaxArgs) : f_super(m)
  \/ f_git_cmd_call
  \/ \E code \in {0, 1} : f_git_cmd_next(code)
  \/ main_exit

Spec == Init /\ [][Next]_vars

\* The interpreter runs the loop of f_git_cmd on, and a started command ends.
FairSpec == Spec /\ WF_vars(f_git_cmd_call) /\ WF_vars(\E code \in {0, 1} : f_git_cmd_next(code))

\* ------------------------------------------------- load as a pure function

\* any persisted list of distinct paths
InitLoad ==
  /\ file \in { [exists |-> TRUE, data |-> Join(l)] :
                  l \in { q \in SeqsUpTo(Paths, Cardinality(Paths)) : NoDup(q) } }
  /\ pc = "idle"
  /\ op = "none"
  /\ status = "ok"
  /\ old = NoFile
  /\ pending = <<>>
  /\ repos = <<>>
  /\ addargs = <<>>
  /\ name = NoName
  /\ man = <<>>
  /\ names = <<>>
  /\ cmd = <<>>
  /\ sel = <<>>
  /\ calls = <<>>
  /\ running = FALSE
  /\ slots = <<>>
  /\ order = <<>>
  /\ out = <<>>

\* utils.get_repos() is called on the path file
Load ==
  /\ pc = "idle"
  /\ op = "none"
  /\ op' = "load"
  /\ pc' = "done"
  /\ old' = file
  /\ repos' = get_repos(file)
  /\ UNCHANGED <<file, status, pending, addargs, name, man, names, cmd, sel,
                 calls, running, slots, order, out>>

NextLoad == Load

SpecLoad == InitLoad /\ [][NextLoad]_vars

\* ------------------------------------------------------------------ claims

Ascending(ps) == \A k \in 1..(Len(ps) - 1) : StrLess(PathStr(ps[k]), PathStr(ps[k + 1]))

\* the valid paths of the command line of add, normalised
AddedValid == { p \in { abspath(addargs[k]) : k \in 1..Len(addargs) } : is_git(p) }

\* the repositories a delegation is meant for: the named ones, or all
SelectedPaths ==
  IF names = <<>> THEN Range(Values(repos))
  ELSE { repos[Lookup(repos, names[k])].path : k \in 1..Len(names) }

CallPaths == { calls[k].path : k \in 1..Len(calls) }

\* the longest leading run of args.man made of registered names
LeadingRun ==
  CHOOSE k \in 0..Len(man) :
    /\ \A j \in 1..k : man[j] \in Keys(repos)
    /\ k < Len(man) => man[k + 1] \notin Keys(repos)

\* C1: when `gita ls` (no repository named) has ended, it has printed exactly
\* one line per repository of the registry, the k-th line rendered from the
\* snapshot of the k-th repository, in whatever order the queries completed.
C1_LsLinesInRegistryOrder ==
  (pc = "done" /\ op = "ls" /\ name = NoName) =>
    /\ status = "ok"
    /\ Len(out) = Len(repos)
    /\ \A k \in 1..Len(out) : out[k].name = repos[k].name /\ out[k] = render(slots[k])

\* C1 witness: three or more repositories whose queries completed in another
\* order than the registry's, all lines printed.
C1_Witness ==
  /\ pc = "done" /\ op = "ls" /\ name = NoName
  /\ Len(repos) >= 3
  /\ Len(out) = Len(repos)
  /\ order[1] = Len(repos)
  /\ order[Len(order)] = 1

\* C2: in a delegation, every call of the command is for a selected
\* repository's path and carries the same argument vector, no path is called
\* twice, and when the delegation has ended every selected repository has been
\* called: N calls for N selected repositories, all of the registry when none
\* is named.
C2_OncePerSelectedRepo ==
  (op = "super" /\ status # "error") =>
    /\ \A k \in 1..Len(calls) : calls[k].path \in SelectedPaths /\ calls[k].cmd = cmd
    /\ \A j, k \in 1..Len(calls) : calls[j].path = calls[k].path => j = k
    /\ pc = "done" =>
         /\ CallPaths = SelectedPaths
         /\ Len(calls) = Cardinality(SelectedPaths)
         /\ names = <<>> => Len(calls) = Len(repos)

\* C2 witness: a repository named twice among the arguments of a registry of
\* several: one call, for it alone.
C2_Witness ==
  /\ pc = "done" /\ op = "super" /\ status = "ok"
  /\ Len(names) = 2 /\ names[1] = names[2]
  /\ Len(repos) >= 3
  /\ Len(calls) = 1

\* C3: a delegation that has entered its loop ends with a completed execution
\* for every selected repository, whatever the exit status of each; none is
\* skipped after a failure.
C3_NoFailFast ==
  /\ [](pc = "done" /\ op = "super" /\ status = "ok" => Len(calls) = Len(sel))
  /\ (pc = "cmd_loop") ~>
       (pc = "done" /\ op = "super" /\ \A k \in 1..Len(sel) : sel[k].path \in CallPaths)

\* C3 witness: the first execution failed and the later ones ran all the same.
C3_Witness ==
  /\ pc = "done" /\ op = "super"
  /\ Len(calls) >= 3
  /\ calls[1].exit = 1
  /\ calls[Len(calls)].exit = 0

\* C4: `gita rm` of a name that is not in the registry ends in an error at
\* once and the path file is what it was, missing file included.
C4_RmUnknownFails ==
  (op = "rm" /\ name \notin Keys(get_repos(old))) =>
    (pc = "done" /\ status = "error" /\ file = old)

\* C4 witness: rm of an unknown name while the path file does not exist.
C4_Witness ==
  /\ pc = "done" /\ op = "rm" /\ status = "error"
  /\ ~old.exists
  /\ name \notin Keys(get_repos(old))

\* C5 (as claimed): whenever add or rm is rewriting the path file, or was
\* interrupted doing so, the file holds the complete old list or the complete
\* new list.
C5_RewriteAtomic ==
  (op \in {"add", "rm"}) => (file.data = old.data \/ file.data = pending)

\* C6: the registry loaded from a list of distinct paths has one entry per
\* listed path, in the list's order, under names that are all different; each
\* name is a suffix of its path (the final segment, or a longer suffix on a
\* clash) or the absolute path.
C6_LoadKeepsEveryPath ==
  (op = "load") =>
    /\ Values(repos) = ReadPaths(file)
    /\ Cardinality(Keys(repos)) = Len(repos)
    /\ \A k \in 1..Len(repos) :
         \/ \E j \in 1..Len(repos[k].path) : repos[k].name = Suffix(repos[k].path, j)
         \/ repos[k].name = <<"">> \o repos[k].path
    /\ \A k \in 1..Len(repos) :
         (\A j \in 1..(k - 1) : Suffix(repos[j].path, 1) # Suffix(repos[k].path, 1))
           => repos[k].name = Suffix(repos[k].path, 1)

\* C6 witness: three listed paths with the same final segment, the second
\* named by its parent-qualified suffix.
C6_Witness ==
  /\ op = "load"
  /\ Len(repos) >= 3
  /\ \A k \in 1..3 : Suffix(repos[k].path, 1) = <<"repo1">>
  /\ repos[2].name = <<"x", "repo1">>

\* C7: after a completed add the path file lists no path twice; if every
\* valid path given was already registered (after normalisation) the file is
\* what it was; and adding the same paths again would change nothing.
C7_AddRegisteredIsNoOp ==
  (pc = "done" /\ op = "add" /\ status = "ok") =>
    /\ NoDup(ReadPaths(file))
    /\ AddedValid \subseteq Range(ReadPaths(old)) => file = old
    /\ AddResult(file, addargs) = file
    /\ \A p \in Range(ReadPaths(old)) : p \in Range(ReadPaths(file))

\* C7 witness: a registered path given again with a trailing separator, beside
\* a new one: the file is rewritten and still lists the old path once.
C7_Witness ==
  /\ pc = "done" /\ op = "add" /\ status = "ok"
  /\ file # old
  /\ \E k \in 1..Len(addargs) :
       addargs[k].trail /\ abspath(addargs[k]) \in Range(ReadPaths(old))

\* C8 (as claimed): after add, load gives the old paths and the added valid
\* ones, the old entries first in their old order and the new ones after them.
C8_AddAppends ==
  (pc = "done" /\ op = "add" /\ status = "ok") =>
    LET got == Values(get_repos(file))
        was == Values(get_repos(old))
    IN /\ Range(got) = Range(was) \cup AddedValid
       /\ Len(got) >= Len(was)
       /\ SubSeq(got, 1, Len(was)) = was

\* C8 (amended): after add, load gives exactly the old paths and the added
\* valid ones, each once; a rewritten list is in ascending path order, old and
\* new entries interleaved, and without a new path the file is not rewritten.
C8_AddRoundTripSorted ==
  (pc = "done" /\ op = "add" /\ status = "ok") =>
    LET got == Values(get_repos(file))
        was == Values(get_repos(old))
    IN /\ Range(got) = Range(was) \cup AddedValid
       /\ NoDup(got)
       /\ file # old => Ascending(got)
       /\ AddedValid \subseteq Range(was) => file = old

\* C8 witness: a new path that sorts before a registered one was added.
C8_Witness ==
  /\ pc = "done" /\ op = "add" /\ status = "ok"
  /\ old.data # <<>>
  /\ file # old
  /\ Values(get_repos(file))[1] \notin Range(Values(get_repos(old)))
  /\ Len(Values(get_repos(file))) >= 3

\* C9: after a completed rm of a registered name the path file lists the
\* paths of all other entries, each once and in their previous order, not the
\* removed entry's path, and it equals the values of the registry in memory.
C9_RmRemovesExactly ==
  (pc = "done" /\ op = "rm" /\ status = "ok") =>
    LET before == get_repos(old)
        gone == before[Lookup(before, name)].path
    IN /\ name \in Keys(before)
       /\ ReadPaths(file) = SelectSeq(Values(before), LAMBDA p : p # gone)
       /\ gone \notin Range(ReadPaths(file))
       /\ Len(ReadPaths(file)) = Len(before) - 1
       /\ file.data = Join(Values(repos))
       /\ ReadPaths(file) = Values(repos)

\* C9 witness: an entry in the middle of a registry of three or more removed.
C9_Witness ==
  /\ pc = "done" /\ op = "rm" /\ status = "ok"
  /\ Len(get_repos(old)) >= 3
  /\ Lookup(get_repos(old), name) = 2

\* C10 (as claimed): for every argument list of `gita super` the selected
\* names are the longest leading run of registered names and the command is
\* the words after that run.
C10_SuperSplitsAtLeadingRun ==
  (op = "super") =>
    /\ status # "error"
    /\ names = SubSeq(man, 1, LeadingRun)
    /\ cmd = SubSeq(man, LeadingRun + 1, Len(man))

====
